---- MODULE Spec2Model ----
(***************************************************************************)
(* Safari bookmark maintenance tools:                                      *)
(*   prune_broken_safari_bookmarks.py      (link pruning, "prune")         *)
(*   remove_safari_bookmarks_by_domains.py (domain removal, "remove")      *)
(*   list_safari_bookmarks.py              (matches_domain of the lister)  *)
(*                                                                         *)
(* Strings that the code inspects character by character (host names,      *)
(* domains, folder titles, folder paths) are sequences of one-character    *)
(* strings.  A URL is the record urlparse() makes of it: scheme and host.  *)
(* An optional value (None or v) is <<>> or <<v>>.                         *)
(***************************************************************************)
EXTENDS Integers, Sequences, FiniteSets, TLC

VARIABLES
    fs_src,       \* content of the Bookmarks.plist on disk
    fs_bak,       \* content of Bookmarks.backup.<ts>.plist, one per timestamp
    pc,           \* position of main()
    tool,         \* "prune" or "remove"
    args,         \* parsed command line of the run
    backup_path,  \* timestamp of the backup path of the run, <<>> before backup
    data,         \* the loaded plist (in-memory tree), <<>> before load
    result,       \* what the traversal returned
    exit_code,    \* exit status of the run, <<>> while it runs
    hist,         \* history of the run: bytes at start, snapshots made
    md_host,      \* matches_domain: argument host
    md_targets,   \* matches_domain: argument targets
    md_result,    \* matches_domain: results of both implementations
    rerun         \* what a second pass of the engine over data returned

vars == <<fs_src, fs_bak, pc, tool, args, backup_path, data, result,
          exit_code, hist, md_host, md_targets, md_result, rerun>>

mainVars == <<fs_src, fs_bak, pc, tool, args, backup_path, data, result,
              exit_code, hist, rerun>>

mdVars == <<md_host, md_targets, md_result>>

-----------------------------------------------------------------------------
(* Bounds *)

MaxNodes == 3
TxnNodes == 1
MaxRuns == 2
MaxClock == 1
MaxHostLen == 3
MaxDomainLen == 2
MaxTargets == 1

-----------------------------------------------------------------------------
(* String primitives of Python used by the code *)

RECURSIVE StrsUpTo(_, _)
StrsUpTo(alphabet, n) ==
    IF n = 0 THEN {<<>>}
    ELSE LET shorter == StrsUpTo(alphabet, n - 1)
         IN  shorter \cup {Append(s, c) : s \in shorter, c \in alphabet}

LowerChar(c) ==
    CASE c = "A" -> "a"
      [] c = "B" -> "b"
      [] c = "F" -> "f"
      [] OTHER -> c

Lower(s) == [i \in 1..Len(s) |-> LowerChar(s[i])]

RECURSIVE LStrip(_, _)
LStrip(s, c) ==
    IF s # <<>> /\ Head(s) = c THEN LStrip(Tail(s), c) ELSE s

RECURSIVE RStrip(_, _)
RStrip(s, c) ==
    IF s # <<>> /\ s[Len(s)] = c THEN RStrip(SubSeq(s, 1, Len(s) - 1), c) ELSE s

Strip(s, c) == RStrip(LStrip(s, c), c)

StartsWith(s, prefix) ==
    /\ Len(prefix) <= Len(s)
    /\ SubSeq(s, 1, Len(prefix)) = prefix

EndsWith(s, suffix) ==
    /\ Len(suffix) <= Len(s)
    /\ SubSeq(s, Len(s) - Len(suffix) + 1, Len(s)) = suffix

\* sep.join(parts)
RECURSIVE Join(_, _)
Join(sep, parts) ==
    IF parts = <<>> THEN <<>>
    ELSE IF Len(parts) = 1 THEN parts[1]
    ELSE parts[1] \o sep \o Join(sep, Tail(parts))

RECURSIVE SelectNonEmpty(_)
SelectNonEmpty(parts) ==
    IF parts = <<>> THEN <<>>
    ELSE IF Head(parts) # <<>> THEN <<Head(parts)>> \o SelectNonEmpty(Tail(parts))
    ELSE SelectNonEmpty(Tail(parts))

-----------------------------------------------------------------------------
(* URL utilities *)

is_http_url(url) == url.scheme \in {"http", "https"}

hostname(url) == Lower(url.host)

\* remove_safari_bookmarks_by_domains.py
RECURSIVE matches_domain_loop(_, _)
matches_domain_loop(host, targets) ==
    IF targets = <<>> THEN FALSE
    ELSE LET d == LStrip(Lower(Head(targets)), ".")
         IN  IF d = <<>> THEN matches_domain_loop(host, Tail(targets))
             ELSE IF host = d \/ EndsWith(host, <<".">> \o d) THEN TRUE
             ELSE matches_domain_loop(host, Tail(targets))

matches_domain_substring(host0, targets) ==
    LET host == Strip(Lower(host0), ".")
    IN  IF host = <<>> THEN FALSE
        ELSE \E i \in 1..Len(targets) :
               LET d == LStrip(Lower(targets[i]), ".")
               IN  d # <<>> /\ EndsWith(host, d)

matches_domain(host0, targets) ==
    LET host == Strip(Lower(host0), ".")
    IN  IF host = <<>> THEN FALSE ELSE matches_domain_loop(host, targets)

\* list_safari_bookmarks.py
RECURSIVE list_matches_domain_loop(_, _)
list_matches_domain_loop(host, targets) ==
    IF targets = <<>> THEN FALSE
    ELSE LET d == LStrip(Lower(Head(targets)), ".")
         IN  IF host = d \/ EndsWith(host, <<".">> \o d) THEN TRUE
             ELSE list_matches_domain_loop(host, Tail(targets))

list_matches_domain(host0, targets) ==
    IF targets = <<>> THEN TRUE
    ELSE LET host == Strip(Lower(host0), ".")
         IN  IF host = <<>> THEN FALSE ELSE list_matches_domain_loop(host, targets)

-----------------------------------------------------------------------------
(* Link classifier: check_url.  The timeout only bounds how long the probe *)
(* blocks; net[k] is what the network answers to the k-th probe sent.      *)

NonHttpVerdict == [status |-> <<>>, error |-> <<"Non-HTTP">>]

check_url(url, net, k) ==
    IF ~is_http_url(url) THEN NonHttpVerdict ELSE net[k]

\* urlopen answered / HTTPError / URLError (or any other exception)
NetVerdicts ==
    { [status |-> <<200>>, error |-> <<>>],
      [status |-> <<300>>, error |-> <<>>],
      [status |-> <<>>, error |-> <<"URLError">>] }

-----------------------------------------------------------------------------
(* Items of the plist: a folder has the key Children, a bookmark has       *)
(* URLString, anything else (a proxy item) has neither.                    *)

IsFolder(item) == "Children" \in DOMAIN item

\* item.get("Title") or item.get("URIDictionary", {}).get("title") or ""
folder_title(item) ==
    IF "Title" \in DOMAIN item /\ item.Title # <<>> THEN item.Title
    ELSE IF "URIDictionary" \in DOMAIN item /\ "title" \in DOMAIN item.URIDictionary
         THEN item.URIDictionary.title
    ELSE <<>>

\* item.get("URLString"): None and "" are both falsy
HasUrl(item) == "URLString" \in DOMAIN item /\ item.URLString # <<>>

SansTitre == <<"S", "a", "n", "s", " ", "t", "i", "t", "r", "e">>

\* "/".join([p for p in path_stack if p])
folder_path_of(path_stack) == Join(<<"/">>, SelectNonEmpty(path_stack))

-----------------------------------------------------------------------------
(* prune_broken_safari_bookmarks.py: prune_children *)

InitStats == [total_tested |-> 0, total_broken |-> 0, total_deleted |-> 0]

InitState == [stats |-> InitStats, calls |-> <<>>, trace |-> <<InitStats>>,
              probes |-> 0]

in_scope_always(folder_filter, folder_path) == TRUE

\* not (folder_filter and not folder_path.startswith(folder_filter))
in_scope(folder_filter, folder_path) ==
    ~(folder_filter # <<>> /\ ~StartsWith(folder_path, folder_filter))

to_delete_keep_unanswered(status, min_status) ==
    IF status = <<>> THEN FALSE ELSE status[1] >= min_status

\* status is None, or status >= min_status
to_delete(status, min_status) ==
    IF status = <<>> THEN TRUE ELSE status[1] >= min_status

prune_keeps_never_in_dry_run(del, dry_run) == ~del

\* whether the leaf is appended to new_children
prune_keeps(del, dry_run) == ~del \/ dry_run

prune_folder_drop_empty(item, filtered_kids) ==
    IF filtered_kids = <<>> THEN <<>>
    ELSE << [item EXCEPT !.Children = filtered_kids] >>

\* item["Children"] = filtered_kids; new_children.append(item)
prune_folder(item, filtered_kids) ==
    << [item EXCEPT !.Children = filtered_kids] >>

counts_deleted_in_dry_run(del, dry_run) == del

\* if dry_run: ... else: stats["total_deleted"] += 1
counts_deleted(del, dry_run) == del /\ ~dry_run

prune_leaf_step(item, folder_path, verdict, dry_run, min_status, st) ==
    LET del == to_delete(verdict.status, min_status)
        s1 == [st.stats EXCEPT !.total_tested = @ + 1]
        s2 == IF del THEN [s1 EXCEPT !.total_broken = @ + 1] ELSE s1
        s3 == IF counts_deleted(del, dry_run)
              THEN [s2 EXCEPT !.total_deleted = @ + 1] ELSE s2
    IN  [kept |-> prune_keeps(del, dry_run),
         st |-> [stats |-> s3,
                 calls |-> Append(st.calls, [url |-> item.URLString, path |-> folder_path,
                                             verdict |-> verdict]),
                 trace |-> st.trace
                           \o <<s1>>
                           \o (IF del THEN <<s2>> ELSE <<>>)
                           \o (IF counts_deleted(del, dry_run) THEN <<s3>> ELSE <<>>),
                 probes |-> st.probes + (IF is_http_url(item.URLString) THEN 1 ELSE 0)]]

\* new: the returned list; inplace: the list passed in, as the loop leaves it
RECURSIVE prune_children(_, _, _, _, _, _, _)
prune_children(children, path_stack, folder_filter, dry_run, min_status, net, st) ==
    IF children = <<>> THEN [new |-> <<>>, inplace |-> <<>>, st |-> st]
    ELSE
      LET item == Head(children)
      IN
        IF IsFolder(item) THEN
          LET title == folder_title(item)
              stack == Append(path_stack, IF title # <<>> THEN title ELSE SansTitre)
              sub == prune_children(item.Children, stack, folder_filter, dry_run,
                                    min_status, net, st)
              rest == prune_children(Tail(children), path_stack, folder_filter,
                                     dry_run, min_status, net, sub.st)
          IN  [new |-> prune_folder(item, sub.new) \o rest.new,
               inplace |-> << [item EXCEPT !.Children = sub.new] >> \o rest.inplace,
               st |-> rest.st]
        ELSE IF ~HasUrl(item) THEN
          LET rest == prune_children(Tail(children), path_stack, folder_filter,
                                     dry_run, min_status, net, st)
          IN  [new |-> <<item>> \o rest.new,
               inplace |-> <<item>> \o rest.inplace,
               st |-> rest.st]
        ELSE IF ~in_scope(folder_filter, folder_path_of(path_stack)) THEN
          LET rest == prune_children(Tail(children), path_stack, folder_filter,
                                     dry_run, min_status, net, st)
          IN  [new |-> <<item>> \o rest.new,
               inplace |-> <<item>> \o rest.inplace,
               st |-> rest.st]
        ELSE
          LET verdict == check_url(item.URLString, net, st.probes + 1)
              step == prune_leaf_step(item, folder_path_of(path_stack), verdict,
                                       dry_run, min_status, st)
              rest == prune_children(Tail(children), path_stack, folder_filter,
                                     dry_run, min_status, net, step.st)
          IN  [new |-> (IF step.kept THEN <<item>> ELSE <<>>) \o rest.new,
               inplace |-> <<item>> \o rest.inplace,
               st |-> rest.st]

-----------------------------------------------------------------------------
(* remove_safari_bookmarks_by_domains.py: filter_children *)

is_ignored_never(title, ignore_folders) == FALSE

\* title in ignore_folders
is_ignored(title, ignore_folders) == title \in ignore_folders

\* whether the leaf is appended to new_children
filter_keeps(matched, dry_run) == ~matched \/ dry_run

\* new_children.append(...) over the rest of the loop
filter_append(new_children, rest) == new_children \o rest

RECURSIVE filter_children(_, _, _, _)
filter_children(children, targets, ignore_folders, dry_run) ==
    IF children = <<>> THEN [new |-> <<>>, inplace |-> <<>>, deleted |-> 0]
    ELSE
      LET item == Head(children)
          rest == filter_children(Tail(children), targets, ignore_folders, dry_run)
      IN
        IF IsFolder(item) THEN
          IF is_ignored(folder_title(item), ignore_folders) THEN
            [new |-> filter_append(<<item>>, rest.new),
             inplace |-> <<item>> \o rest.inplace,
             deleted |-> rest.deleted]
          ELSE
            LET sub == filter_children(item.Children, targets, ignore_folders, dry_run)
                item2 == IF dry_run THEN item ELSE [item EXCEPT !.Children = sub.new]
            IN  [new |-> filter_append(<<item2>>, rest.new),
                 inplace |-> <<item2>> \o rest.inplace,
                 deleted |-> sub.deleted + rest.deleted]
        ELSE IF HasUrl(item) /\ matches_domain(hostname(item.URLString), targets) THEN
          [new |-> filter_append(IF filter_keeps(TRUE, dry_run) THEN <<item>> ELSE <<>>,
                                 rest.new),
           inplace |-> <<item>> \o rest.inplace,
           deleted |-> 1 + rest.deleted]
        ELSE
          [new |-> filter_append(<<item>>, rest.new),
           inplace |-> <<item>> \o rest.inplace,
           deleted |-> rest.deleted]

-----------------------------------------------------------------------------
(* Bounded documents *)

FolderTitles == {<<"A">>, <<"A", "B">>, <<>>}

WebLeaf ==
    [URLString |-> [scheme |-> "https", host |-> <<"m", ".", "F", ".", "c">>],
     URIDictionary |-> [title |-> <<"w">>]]

ScriptLeaf ==
    [URLString |-> [scheme |-> "javascript", host |-> <<>>],
     URIDictionary |-> [title |-> <<"j">>]]

ProxyItem == [Title |-> <<"H">>]

LeafItems == {WebLeaf, ScriptLeaf, ProxyItem}

Folder(title, children) == [Title |-> title, Children |-> children]

\* ForestsOf(n): the Children lists with exactly n nodes
RECURSIVE ForestsOf(_)
ForestsOf(n) ==
    IF n = 0 THEN {<<>>}
    ELSE UNION { LET firsts == IF k = 1
                               THEN LeafItems \cup {Folder(t, <<>>) : t \in FolderTitles}
                               ELSE {Folder(t, c) : t \in FolderTitles, c \in ForestsOf(k - 1)}
                 IN  {<<i>> \o r : i \in firsts, r \in ForestsOf(n - k)}
                 : k \in 1..n }

ForestsUpTo(n) == UNION {ForestsOf(k) : k \in 0..n}

-----------------------------------------------------------------------------
(* matches_domain applied to bounded hosts and target lists *)

HostAlphabet == {"a", "A", "."}

Hosts == StrsUpTo(HostAlphabet, MaxHostLen)

Domains == StrsUpTo(HostAlphabet, MaxDomainLen)

RECURSIVE ListsUpTo(_, _)
ListsUpTo(S, n) ==
    IF n = 0 THEN {<<>>}
    ELSE LET shorter == ListsUpTo(S, n - 1)
         IN  shorter \cup {Append(l, e) : l \in shorter, e \in S}

TargetLists == ListsUpTo(Domains, MaxTargets)

NoResult == [called |-> FALSE, remove |-> FALSE, list |-> FALSE]

-----------------------------------------------------------------------------
(* Files.  The bytes of a file are what plistlib makes of them: a parsed   *)
(* plist, or bytes that do not parse.                                      *)

NoFile == [kind |-> "missing"]

Garbage == [kind |-> "garbage"]

\* a file opened for writing whose write did not complete: empty or a prefix
Torn == [kind |-> "torn"]

Plist(root) == [kind |-> "plist", root |-> root]

Clocks == 1..MaxClock

NoBackups == [ts \in Clocks |-> NoFile]

\* what a failed write_bytes / open("wb") + dump leaves in a file that held old
FailedWrite(old) == {old, Torn}

-----------------------------------------------------------------------------
(* Command lines *)

Scopes == {<<>>, <<"A">>, <<"A", "/", "A">>}

MinStatuses == {300, 400}

PruneArgs ==
    [dry_run : BOOLEAN, folder : Scopes, min_status : MinStatuses]

DomainArgs == {<< <<"f", ".", "c">> >>, << <<" ">> >>}

IgnoreArgs == {<<>>, << <<"A">> >>}

RemoveArgs ==
    [dry_run : BOOLEAN, domain : DomainArgs, ignore_folder : IgnoreArgs]

\* args.folder.strip() if args.folder else None
folder_filter_of(a) ==
    IF a.folder = <<>> THEN <<>> ELSE Strip(a.folder, " ")

\* [d.strip() for d in args.domain if d.strip()]
RECURSIVE targets_of(_)
targets_of(domain) ==
    IF domain = <<>> THEN <<>>
    ELSE LET d == Strip(Head(domain), " ")
         IN  (IF d # <<>> THEN <<d>> ELSE <<>>) \o targets_of(Tail(domain))

\* set(args.ignore_folder or [])
ignore_folders_of(a) == {a.ignore_folder[i] : i \in 1..Len(a.ignore_folder)}

\* how many probes the network can be asked for at most
RECURSIVE CountHttpLeaves(_)
CountHttpLeaves(children) ==
    IF children = <<>> THEN 0
    ELSE LET item == Head(children)
         IN  (IF IsFolder(item) THEN CountHttpLeaves(item.Children)
              ELSE IF HasUrl(item) /\ is_http_url(item.URLString) THEN 1 ELSE 0)
             + CountHttpLeaves(Tail(children))

\* data.get("Children", [])
children_of(root) == IF "Children" \in DOMAIN root THEN root.Children ELSE <<>>

-----------------------------------------------------------------------------
(* main() of the two mutating tools *)

\* history of the runs, for the properties: the bytes of the files when the
\* run started, the snapshots the runs made, the failures the run met
NoHist == [runs |-> 0, pre_src |-> NoFile, pre_bak |-> NoBackups, snaps |-> {},
           backup_failed |-> FALSE, write_failed |-> FALSE,
           backups_all_written |-> TRUE, load_failed |-> FALSE]

MainIdle ==
    /\ fs_src = NoFile
    /\ fs_bak = NoBackups
    /\ pc = "off"
    /\ tool = ""
    /\ args = <<>>
    /\ backup_path = <<>>
    /\ data = <<>>
    /\ result = <<>>
    /\ exit_code = <<>>
    /\ hist = NoHist
    /\ rerun = <<>>

MdIdle ==
    /\ md_host = <<>>
    /\ md_targets = <<>>
    /\ md_result = NoResult

Init ==
    /\ fs_src \in {Plist([Children |-> f]) : f \in ForestsUpTo(TxnNodes)}
                  \cup {NoFile, Garbage}
    /\ fs_bak = NoBackups
    /\ pc = "off"
    /\ tool = ""
    /\ args = <<>>
    /\ backup_path = <<>>
    /\ data = <<>>
    /\ result = <<>>
    /\ exit_code = <<>>
    /\ hist = NoHist
    /\ rerun = <<>>
    /\ MdIdle

Exit(code) ==
    /\ pc' = "done"
    /\ exit_code' = <<code>>

\* the process is started: argparse
Start ==
    /\ pc \in {"off", "done"}
    /\ hist.runs < MaxRuns
    /\ \E t \in {"prune", "remove"} :
         /\ tool' = t
         /\ args' \in (IF t = "prune" THEN PruneArgs ELSE RemoveArgs)
    /\ pc' = "exists"
    /\ backup_path' = <<>>
    /\ data' = <<>>
    /\ result' = <<>>
    /\ exit_code' = <<>>
    /\ hist' = [hist EXCEPT !.runs = @ + 1, !.pre_src = fs_src, !.pre_bak = fs_bak,
                            !.backup_failed = FALSE, !.write_failed = FALSE,
                            !.load_failed = FALSE]
    /\ UNCHANGED <<fs_src, fs_bak>>
    /\ UNCHANGED <<mdVars, rerun>>

\* if not path.exists(): sys.exit(1)
CheckExists ==
    /\ pc = "exists"
    /\ IF fs_src = NoFile
       THEN Exit(1)
       ELSE /\ pc' = (IF tool = "prune" THEN "backup" ELSE "load")
            /\ UNCHANGED exit_code
    /\ UNCHANGED <<fs_src, fs_bak, tool, args, backup_path, data, result, hist>>
    /\ UNCHANGED <<mdVars, rerun>>

\* with open(path, "rb") as f: data = plistlib.load(f)
LoadOk ==
    /\ pc = "load"
    /\ fs_src.kind = "plist"
    /\ data' = fs_src.root
    /\ pc' = (IF tool = "prune" THEN "traverse" ELSE "targets")
    /\ UNCHANGED <<fs_src, fs_bak, tool, args, backup_path, result, exit_code, hist>>
    /\ UNCHANGED <<mdVars, rerun>>

AfterLoadSwallowed == IF tool = "prune" THEN "traverse" ELSE "targets"

\* except Exception around plistlib.load: message on stderr, sys.exit(1)
AfterLoadFailure == "done"

\* the file cannot be opened or does not parse
LoadFails ==
    /\ pc = "load"
    /\ hist' = [hist EXCEPT !.load_failed = TRUE]
    /\ pc' = AfterLoadFailure
    /\ exit_code' = (IF AfterLoadFailure = "done" THEN <<1>> ELSE exit_code)
    /\ UNCHANGED <<fs_src, fs_bak, tool, args, backup_path, data, result>>
    /\ UNCHANGED <<mdVars, rerun>>

\* remove: if not targets: sys.exit(1)
CheckTargets ==
    /\ pc = "targets"
    /\ IF targets_of(args.domain) = <<>>
       THEN Exit(1)
       ELSE /\ pc' = "backup"
            /\ UNCHANGED exit_code
    /\ UNCHANGED <<fs_src, fs_bak, tool, args, backup_path, data, result, hist>>
    /\ UNCHANGED <<mdVars, rerun>>

AfterBackupSwallowed == IF tool = "prune" THEN "load" ELSE "traverse"

\* an exception of backup_bookmarks is not caught: the process ends
AfterBackupFailure == "done"

\* backup_bookmarks: ts is what datetime.now() formats to
BackupOk ==
    /\ pc = "backup"
    /\ \E ts \in Clocks :
         /\ fs_bak' = [fs_bak EXCEPT ![ts] = fs_src]
         /\ backup_path' = <<ts>>
         /\ hist' = [hist EXCEPT !.snaps = @ \cup {[ts |-> ts, bytes |-> fs_src]}]
    /\ pc' = (IF tool = "prune" THEN "load" ELSE "traverse")
    /\ UNCHANGED <<fs_src, tool, args, data, result, exit_code>>
    /\ UNCHANGED <<mdVars, rerun>>

\* path.read_bytes() or backup_path.write_bytes() raises
BackupFails ==
    /\ pc = "backup"
    /\ \E ts \in Clocks :
         fs_bak' \in {[fs_bak EXCEPT ![ts] = c] : c \in FailedWrite(fs_bak[ts])}
    /\ hist' = [hist EXCEPT !.backup_failed = TRUE, !.backups_all_written = FALSE]
    /\ pc' = AfterBackupFailure
    /\ exit_code' = (IF AfterBackupFailure = "done" THEN <<1>> ELSE exit_code)
    /\ UNCHANGED <<fs_src, tool, args, backup_path, data, result>>
    /\ UNCHANGED <<mdVars, rerun>>

\* prune: new_children = prune_children(children, [], folder_filter, ...)
PruneTraverse ==
    /\ pc = "traverse"
    /\ tool = "prune"
    /\ \E net \in [1..CountHttpLeaves(children_of(data)) -> NetVerdicts] :
         LET r == prune_children(children_of(data), <<>>, folder_filter_of(args),
                                 args.dry_run, args.min_status, net, InitState)
         IN  /\ result' = [new |-> r.new, stats |-> r.st.stats, calls |-> r.st.calls,
                           trace |-> r.st.trace, input |-> children_of(data)]
             /\ data' = [data EXCEPT !.Children = r.inplace]
    /\ pc' = "finish"
    /\ UNCHANGED <<fs_src, fs_bak, tool, args, backup_path, exit_code, hist>>
    /\ UNCHANGED <<mdVars, rerun>>

\* remove: new_children, deleted = filter_children(children, targets, ...)
FilterTraverse ==
    /\ pc = "traverse"
    /\ tool = "remove"
    /\ LET r == filter_children(children_of(data), targets_of(args.domain),
                                ignore_folders_of(args), args.dry_run)
       IN  /\ result' = [new |-> r.new, deleted |-> r.deleted,
                         input |-> children_of(data)]
           /\ data' = [data EXCEPT !.Children = r.inplace]
    /\ pc' = "finish"
    /\ UNCHANGED <<fs_src, fs_bak, tool, args, backup_path, exit_code, hist>>
    /\ UNCHANGED <<mdVars, rerun>>

dry_run_returns_never(a) == FALSE

\* if args.dry_run: return
dry_run_returns(a) == a.dry_run

\* the recap, then the dry-run return or data["Children"] = new_children
Finish ==
    /\ pc = "finish"
    /\ IF dry_run_returns(args)
       THEN /\ Exit(0)
            /\ UNCHANGED data
       ELSE /\ data' = [data EXCEPT !.Children = result.new]
            /\ pc' = "write"
            /\ UNCHANGED exit_code
    /\ UNCHANGED <<fs_src, fs_bak, tool, args, backup_path, result, hist>>
    /\ UNCHANGED <<mdVars, rerun>>

\* with open(path, "wb") as f: plistlib.dump(data, f)
WriteOk ==
    /\ pc = "write"
    /\ fs_src' = Plist(data)
    /\ Exit(0)
    /\ UNCHANGED <<fs_bak, tool, args, backup_path, data, result, hist>>
    /\ UNCHANGED <<mdVars, rerun>>

\* open or dump raises: the except branch is entered
WriteFails ==
    /\ pc = "write"
    /\ fs_src' \in FailedWrite(fs_src)
    /\ pc' = "restore"
    /\ hist' = [hist EXCEPT !.write_failed = TRUE]
    /\ UNCHANGED <<fs_bak, tool, args, backup_path, data, result, exit_code>>
    /\ UNCHANGED <<mdVars, rerun>>

\* path.write_bytes(backup_path.read_bytes()); sys.exit(1)
RestoreOk ==
    /\ pc = "restore"
    /\ backup_path # <<>>
    /\ fs_bak[backup_path[1]] # NoFile
    /\ fs_src' = fs_bak[backup_path[1]]
    /\ Exit(1)
    /\ UNCHANGED <<fs_bak, tool, args, backup_path, data, result, hist>>
    /\ UNCHANGED <<mdVars, rerun>>

\* the read of the backup or the write of the source raises in the handler:
\* the exception leaves main(), the interpreter exits with status 1
RestoreFails ==
    /\ pc = "restore"
    /\ fs_src' \in FailedWrite(fs_src)
    /\ Exit(1)
    /\ UNCHANGED <<fs_bak, tool, args, backup_path, data, result, hist>>
    /\ UNCHANGED <<mdVars, rerun>>

Next ==
    \/ Start
    \/ CheckExists
    \/ LoadOk
    \/ LoadFails
    \/ CheckTargets
    \/ BackupOk
    \/ BackupFails
    \/ PruneTraverse
    \/ FilterTraverse
    \/ Finish
    \/ WriteOk
    \/ WriteFails
    \/ RestoreOk
    \/ RestoreFails

Spec == Init /\ [][Next]_vars

-----------------------------------------------------------------------------
(* The traversal engines applied to bounded trees *)

InitEngine ==
    /\ \E f \in ForestsUpTo(MaxNodes) :
         /\ fs_src = Plist([Children |-> f])
         /\ data = [Children |-> f]
         /\ fs_bak = [NoBackups EXCEPT ![1] = fs_src]
         /\ hist = [NoHist EXCEPT !.runs = 1, !.pre_src = fs_src,
                                  !.snaps = {[ts |-> 1, bytes |-> fs_src]}]
    /\ pc = "traverse"
    /\ tool \in {"prune", "remove"}
    /\ args \in (IF tool = "prune" THEN PruneArgs
                 ELSE {a \in RemoveArgs : targets_of(a.domain) # <<>>})
    /\ backup_path = <<1>>
    /\ result = <<>>
    /\ exit_code = <<>>
    /\ rerun = <<>>
    /\ MdIdle

\* what the classifier answered for the http(s) URLs of a run
Answers(calls) ==
    {calls[i].verdict : i \in {j \in 1..Len(calls) : is_http_url(calls[j].url)}}

\* the classifier gave one verdict per URL
SameVerdictPerUrl(calls) ==
    \A i, j \in 1..Len(calls) :
        calls[i].url = calls[j].url => calls[i].verdict = calls[j].verdict

\* prune_children a second time, over the in-memory tree as the first pass
\* left it, with a classifier that answers each URL as it did before
PruneRerun ==
    /\ pc = "finish"
    /\ tool = "prune"
    /\ \E net \in [1..CountHttpLeaves(children_of(data)) ->
                     (IF Answers(result.calls) = {} THEN NetVerdicts
                      ELSE Answers(result.calls))] :
         LET r == prune_children(children_of(data), <<>>, folder_filter_of(args),
                                 args.dry_run, args.min_status, net, InitState)
         IN  /\ SameVerdictPerUrl(result.calls \o r.st.calls)
             /\ rerun' = [before |-> children_of(data), new |-> r.new,
                          tally |-> r.st.stats]
             /\ data' = [data EXCEPT !.Children = r.inplace]
    /\ pc' = "again"
    /\ UNCHANGED <<fs_src, fs_bak, tool, args, backup_path, result, exit_code, hist>>
    /\ UNCHANGED mdVars

\* filter_children a second time, over the in-memory tree
FilterRerun ==
    /\ pc = "finish"
    /\ tool = "remove"
    /\ LET r == filter_children(children_of(data), targets_of(args.domain),
                                ignore_folders_of(args), args.dry_run)
       IN  /\ rerun' = [before |-> children_of(data), new |-> r.new,
                        tally |-> r.deleted]
           /\ data' = [data EXCEPT !.Children = r.inplace]
    /\ pc' = "again"
    /\ UNCHANGED <<fs_src, fs_bak, tool, args, backup_path, result, exit_code, hist>>
    /\ UNCHANGED mdVars

NextEngine == PruneTraverse \/ FilterTraverse \/ PruneRerun \/ FilterRerun

SpecEngine == InitEngine /\ [][NextEngine]_vars

-----------------------------------------------------------------------------
(* matches_domain applied to bounded hosts and target lists *)

InitDomain ==
    /\ MainIdle
    /\ md_host \in Hosts
    /\ md_targets \in TargetLists
    /\ md_result = NoResult

CallMatchesDomain ==
    /\ ~md_result.called
    /\ md_result' = [called |-> TRUE,
                     remove |-> matches_domain(md_host, md_targets),
                     list |-> list_matches_domain(md_host, md_targets)]
    /\ UNCHANGED <<md_host, md_targets>>
    /\ UNCHANGED mainVars

NextDomain == CallMatchesDomain

SpecDomain == InitDomain /\ [][NextDomain]_vars

-----------------------------------------------------------------------------
(* Positions in a tree, for the properties.  A position is the sequence of *)
(* indexes that leads from the top-level list to an item.                  *)

RECURSIVE Positions(_)
Positions(children) ==
    UNION { {<<i>>} \cup
            (IF IsFolder(children[i])
             THEN {<<i>> \o q : q \in Positions(children[i].Children)}
             ELSE {})
            : i \in 1..Len(children) }

RECURSIVE ItemAt(_, _)
ItemAt(children, p) ==
    IF Len(p) = 1 THEN children[p[1]]
    ELSE ItemAt(children[p[1]].Children, Tail(p))

\* the titles of the folders that contain the item at p, outermost first
AncestorTitles(children, p) ==
    [k \in 1..(Len(p) - 1) |-> ItemAt(children, SubSeq(p, 1, k)).Title]

\* the folder path of the item at p, untitled folders named "Sans titre"
PathAt(children, p) ==
    LET titles == AncestorTitles(children, p)
    IN  Join(<<"/">>, [k \in 1..Len(titles) |->
                          IF titles[k] = <<>> THEN SansTitre ELSE titles[k]])

UrlLeafPositions(children) ==
    {p \in Positions(children) :
        LET item == ItemAt(children, p) IN ~IsFolder(item) /\ HasUrl(item)}

\* p comes before q in document order (neither is a prefix of the other)
Before(p, q) ==
    \E k \in 1..Len(p) :
        /\ k <= Len(q)
        /\ SubSeq(p, 1, k - 1) = SubSeq(q, 1, k - 1)
        /\ p[k] < q[k]

\* the tree with the items at the positions of D left out
RECURSIVE ProjectFrom(_, _, _, _)
ProjectFrom(children, i, prefix, D) ==
    IF i > Len(children) THEN <<>>
    ELSE LET p == Append(prefix, i)
             item == children[i]
             kept == IF p \in D THEN <<>>
                     ELSE IF IsFolder(item)
                     THEN << [item EXCEPT !.Children =
                                 ProjectFrom(item.Children, 1, p, D)] >>
                     ELSE <<item>>
         IN  kept \o ProjectFrom(children, i + 1, prefix, D)

Project(children, D) == ProjectFrom(children, 1, <<>>, D)

\* the items of the tree in document order that satisfy Want(item, path)
RECURSIVE Flatten(_)
Flatten(children) ==
    IF children = <<>> THEN <<>>
    ELSE LET item == Head(children)
         IN  <<item>>
             \o (IF IsFolder(item) THEN Flatten(item.Children) ELSE <<>>)
             \o Flatten(Tail(children))

-----------------------------------------------------------------------------
(* What the claims call the predicate, the scope and the ignored folders   *)

Traversed == pc = "finish"

Pruned == Traversed /\ tool = "prune"

Filtered == Traversed /\ tool = "remove"

\* the folder path starts with the scope, when a scope is given
WithinScope(children, p) ==
    args.folder = <<>> \/ StartsWith(PathAt(children, p), args.folder)

InScopeUrlLeaves(children) ==
    {p \in UrlLeafPositions(children) : WithinScope(children, p)}

\* the rank of the leaf at p among the leaves of S, in document order
RankIn(S, p) == 1 + Cardinality({q \in S : Before(q, p)})

\* the rank of an in-scope leaf in document order
Rank(children, p) == RankIn(InScopeUrlLeaves(children), p)

\* prune: verdict status absent or status >= min_status
VerdictDrops(v) == v.status = <<>> \/ v.status[1] >= args.min_status

PruneDropped(children) ==
    LET S == InScopeUrlLeaves(children)
    IN  {p \in S :
           /\ RankIn(S, p) <= Len(result.calls)
           /\ VerdictDrops(result.calls[RankIn(S, p)].verdict)}

\* the suffix rule on normalised names
SuffixRule(host, targets) ==
    LET h == Strip(Lower(host), ".")
    IN  /\ h # <<>>
        /\ \E i \in 1..Len(targets) :
             LET d == LStrip(Lower(targets[i]), ".")
             IN  /\ d # <<>>
                 /\ (h = d \/ EndsWith(h, <<".">> \o d))

IgnoreSet == {args.ignore_folder[i] : i \in 1..Len(args.ignore_folder)}

UnderIgnored(children, p) ==
    \E k \in 1..(Len(p) - 1) : AncestorTitles(children, p)[k] \in IgnoreSet

RemoveDropped(children) ==
    {p \in UrlLeafPositions(children) :
        /\ ~UnderIgnored(children, p)
        /\ SuffixRule(ItemAt(children, p).URLString.host, args.domain)}

-----------------------------------------------------------------------------
(* C1: in a non-simulate run, if overwriting the source document fails at  *)
(* any point, then when the run ends the source document holds exactly its *)
(* pre-run bytes and the exit status is non-zero.                          *)
C1_FailedWriteRestored ==
    (pc = "done" /\ hist.write_failed) =>
        (fs_src = hist.pre_src /\ exit_code # <<0>>)

(* C2: after any sequence of runs (successful, simulated or failed and     *)
(* restored, their backups written), at arbitrary clock values, every      *)
(* backup snapshot a run created still exists and still holds the bytes    *)
(* the source document had when that run started.                          *)
C2_SnapshotsPersist ==
    hist.backups_all_written =>
        \A s \in hist.snaps : fs_bak[s.ts] = s.bytes

(* C3: in a simulate run the source document is never written (main() is   *)
(* never at the overwrite or the restore, the bytes are the pre-run        *)
(* bytes), and the only file that changes is the backup of the run.        *)
C3_DryRunWritesOnlyBackup ==
    (pc # "off" /\ args.dry_run) =>
        /\ pc \notin {"write", "restore"}
        /\ fs_src = hist.pre_src
        /\ Cardinality({ts \in Clocks : fs_bak[ts] # hist.pre_bak[ts]}) <= 1
        /\ \A ts \in Clocks :
             fs_bak[ts] # hist.pre_bak[ts] =>
                \/ hist.backup_failed
                \/ backup_path = <<ts>> /\ fs_bak[ts] = hist.pre_src

C3_Witness ==
    /\ pc = "done"
    /\ args.dry_run
    /\ exit_code = <<0>>
    /\ backup_path # <<>>
    /\ fs_bak[backup_path[1]] = hist.pre_src
    /\ \/ tool = "prune" /\ result.stats.total_broken > 0
       \/ tool = "remove" /\ result.deleted > 0

(* C4: once a run has traversed the tree or changed the source document,   *)
(* the backup of the run holds the pre-run bytes of the source; and a run  *)
(* whose backup failed has ended with a non-zero status, without any       *)
(* traversal (no classifier call) and with the source document unchanged.  *)
C4_BackupFirst ==
    /\ (pc # "off" /\ (result # <<>> \/ fs_src # hist.pre_src)) =>
          /\ backup_path # <<>>
          /\ fs_bak[backup_path[1]] = hist.pre_src
    /\ hist.backup_failed =>
          /\ pc = "done"
          /\ exit_code = <<1>>
          /\ result = <<>>
          /\ fs_src = hist.pre_src

C4_Witness ==
    /\ Pruned
    /\ result.calls # <<>>
    /\ fs_bak[backup_path[1]] = hist.pre_src

(* C5: every URL leaf the predicate drops, within scope and not under an   *)
(* ignored folder, is absent from the returned tree when simulate is false *)
(* and present when simulate is true; it is counted as matched either way. *)
C5_TargetedRemoval ==
    /\ Pruned =>
         LET D == PruneDropped(result.input)
         IN  /\ result.new = (IF args.dry_run THEN result.input
                              ELSE Project(result.input, D))
             /\ result.stats.total_broken = Cardinality(D)
    /\ Filtered =>
         LET D == RemoveDropped(result.input)
         IN  /\ result.new = (IF args.dry_run THEN result.input
                              ELSE Project(result.input, D))
             /\ result.deleted = Cardinality(D)

C5_Witness ==
    /\ Traversed
    /\ ~args.dry_run
    /\ \E p \in UrlLeafPositions(result.input) :
         /\ Len(p) = 3
         /\ p \in (IF tool = "prune" THEN PruneDropped(result.input)
                   ELSE RemoveDropped(result.input))
    /\ Len(Flatten(result.new)) = 2

\* out is made of children by leaving out URL leaves only
RECURSIVE IsPruningOf(_, _)
IsPruningOf(out, children) ==
    IF children = <<>> THEN out = <<>>
    ELSE LET item == Head(children)
         IN  \/ /\ out # <<>>
                /\ IF IsFolder(item)
                   THEN /\ IsFolder(Head(out))
                        /\ DOMAIN Head(out) = DOMAIN item
                        /\ \A k \in DOMAIN item \ {"Children"} : Head(out)[k] = item[k]
                        /\ IsPruningOf(Head(out).Children, item.Children)
                   ELSE Head(out) = item
                /\ IsPruningOf(Tail(out), Tail(children))
             \/ /\ ~IsFolder(item)
                /\ HasUrl(item)
                /\ IsPruningOf(out, Tail(children))

KeptItems(children) ==
    SelectSeq(Flatten(children), LAMBDA item : IsFolder(item) \/ ~HasUrl(item))

Skeleton(children) ==
    LET kept == KeptItems(children)
    IN  [k \in 1..Len(kept) |->
            [f \in DOMAIN kept[k] \ {"Children"} |-> kept[k][f]]]

NothingMatched ==
    IF tool = "prune" THEN result.stats.total_broken = 0 ELSE result.deleted = 0

(* C6: the returned tree is the input tree with URL leaves left out and    *)
(* nothing else changed: every folder and every item without a URL is      *)
(* retained with its fields, in the original order at every level; when no *)
(* leaf matches the predicate the returned tree is the input tree.         *)
C6_OnlyLeavesOmitted ==
    Traversed =>
        /\ IsPruningOf(result.new, result.input)
        /\ Skeleton(result.new) = Skeleton(result.input)
        /\ NothingMatched => result.new = result.input

C6_Witness ==
    /\ Traversed
    /\ ~args.dry_run
    /\ \E p \in Positions(result.input) :
         /\ IsFolder(ItemAt(result.input, p))
         /\ ItemAt(result.input, p).Children # <<>>
         /\ ItemAt(result.new, p).Children = <<>>
    /\ Len(result.new) = 2
    /\ Len(result.input) = 2

\* the folders with an ignored title, with their subtrees, in document order
IgnoredFolders(children) ==
    SelectSeq(Flatten(children),
              LAMBDA item : IsFolder(item) /\ item.Title \in IgnoreSet)

(* C7: domain removal leaves every folder whose title is in the ignore set *)
(* as it is in the input, descendants included, and counts no leaf inside  *)
(* it, whatever the leaves inside match and whatever the simulate flag.    *)
C7_IgnoredFolderOpaque ==
    Filtered =>
        /\ IgnoredFolders(result.new) = IgnoredFolders(result.input)
        /\ IgnoredFolders(data.Children) = IgnoredFolders(result.input)
        /\ result.deleted =
             Cardinality({p \in UrlLeafPositions(result.input) :
                 /\ ~UnderIgnored(result.input, p)
                 /\ SuffixRule(ItemAt(result.input, p).URLString.host, args.domain)})

C7_Witness ==
    /\ Filtered
    /\ ~args.dry_run
    /\ result.deleted = 1
    /\ \E p \in UrlLeafPositions(result.input) :
         /\ UnderIgnored(result.input, p)
         /\ SuffixRule(ItemAt(result.input, p).URLString.host, args.domain)
    /\ IgnoredFolders(result.new) # <<>>

\* the URL leaves outside the scope, with their folder paths, in document order
RECURSIVE OutOfScopeLeaves(_, _)
OutOfScopeLeaves(children, titles) ==
    IF children = <<>> THEN <<>>
    ELSE LET item == Head(children)
             here == Join(<<"/">>, titles)
         IN  (IF IsFolder(item)
              THEN OutOfScopeLeaves(item.Children,
                      Append(titles, IF item.Title = <<>> THEN SansTitre ELSE item.Title))
              ELSE IF HasUrl(item) /\ args.folder # <<>> /\ ~StartsWith(here, args.folder)
              THEN << [path |-> here, item |-> item] >>
              ELSE <<>>)
             \o OutOfScopeLeaves(Tail(children), titles)

(* C8: link pruning with a scope removes and counts no leaf whose folder   *)
(* path does not start with the scope; every leaf whose folder path does   *)
(* start with it is tested, also under folders that are outside the scope. *)
C8_ScopeContainment ==
    (Pruned /\ args.folder # <<>>) =>
        /\ OutOfScopeLeaves(result.new, <<>>) = OutOfScopeLeaves(result.input, <<>>)
        /\ LET S == InScopeUrlLeaves(result.input)
           IN  /\ result.stats.total_tested = Cardinality(S)
               /\ Len(result.calls) = Cardinality(S)
               /\ \A p \in S :
                    result.calls[RankIn(S, p)].url = ItemAt(result.input, p).URLString

C8_Witness ==
    /\ Pruned
    /\ ~args.dry_run
    /\ args.folder = <<"A">>
    /\ result.input = <<ScriptLeaf, Folder(<<"A">>, <<ScriptLeaf>>)>>
    /\ result.new = <<ScriptLeaf, Folder(<<"A">>, <<>>)>>

NonHttpLeaves(children) ==
    {p \in UrlLeafPositions(children) : ~is_http_url(ItemAt(children, p).URLString)}

NonHttpCount(children) == Cardinality(NonHttpLeaves(children))

(* C9 as claimed: a leaf whose scheme is not http or https is kept in the  *)
(* output tree of a link-pruning run.                                      *)
C9_NonHttpKept ==
    Pruned => NonHttpCount(result.new) = NonHttpCount(result.input)

(* C9 as amended: a leaf whose scheme is not http or https gets the        *)
(* verdict status absent, error "Non-HTTP", whatever the network would     *)
(* answer; within scope it is counted as broken and, unless the run is a   *)
(* dry run, removed from the output tree; it is kept in a dry run and      *)
(* outside the scope.                                                      *)
C9_NonHttpPruned ==
    Pruned =>
        /\ \A k \in 1..Len(result.calls) :
             ~is_http_url(result.calls[k].url) =>
                 result.calls[k].verdict = NonHttpVerdict
        /\ NonHttpLeaves(result.input) \cap InScopeUrlLeaves(result.input)
              \subseteq PruneDropped(result.input)
        /\ NonHttpCount(result.new) =
             (IF args.dry_run THEN NonHttpCount(result.input)
              ELSE Cardinality(NonHttpLeaves(result.input)
                               \ InScopeUrlLeaves(result.input)))

C9_Witness ==
    /\ Pruned
    /\ ~args.dry_run
    /\ result.input = <<ScriptLeaf>>
    /\ result.new = <<>>
    /\ result.stats.total_deleted = 1
    /\ result.calls[1].verdict = NonHttpVerdict

\* the rule as the claim words it: lower-cased names, no other normalisation
LiteralSuffixRule(host, targets) ==
    /\ host # <<>>
    /\ \E i \in 1..Len(targets) :
         \/ Lower(host) = Lower(targets[i])
         \/ EndsWith(Lower(host), <<".">> \o Lower(targets[i]))

(* C10 as claimed: for a non-empty target list matches_domain(host,        *)
(* targets) is true exactly when host is non-empty and, for some target d, *)
(* host equals d or ends with "." + d, case-insensitively.                 *)
C10_LiteralSuffixRule ==
    (md_result.called /\ md_targets # <<>>) =>
        /\ md_result.remove = LiteralSuffixRule(md_host, md_targets)
        /\ md_result.list = LiteralSuffixRule(md_host, md_targets)

(* C10 as amended: for a non-empty target list matches_domain(host,        *)
(* targets) is true exactly when h is non-empty and, for some target d     *)
(* with d' non-empty, h equals d' or h ends with "." + d', where h is host *)
(* lower-cased with its leading and trailing dots stripped and d' is d     *)
(* lower-cased with its leading dots stripped.                             *)
C10_NormalisedSuffixRule ==
    (md_result.called /\ md_targets # <<>>) =>
        /\ md_result.remove = SuffixRule(md_host, md_targets)
        /\ md_result.list = SuffixRule(md_host, md_targets)

C10_Witness ==
    /\ md_result.called
    /\ md_host = <<"A", ".", "a">>
    /\ md_targets = << <<".", "a">> >>
    /\ md_result.remove
    /\ md_result.list

\* C11: in the traversal engines, a second pass with a classifier that gives
\* the same verdict for the same URL, over a tree the first pass left
\* unmodified, returns the same tree and the same tallies as the first pass;
\* in simulate mode the in-memory tree equals the loaded one after each pass.
Reran == pc = "again"

Tally == IF tool = "prune" THEN result.stats ELSE result.deleted

C11_RerunIdentical ==
    Reran =>
      /\ (rerun.before = result.input =>
             /\ rerun.new = result.new
             /\ rerun.tally = Tally)
      /\ (args.dry_run =>
             /\ rerun.before = result.input
             /\ children_of(data) = result.input
             /\ rerun.tally = Tally)

\* two simulated pruning passes over a folder of two dead links
C11_Witness ==
    /\ Reran
    /\ tool = "prune"
    /\ args.dry_run
    /\ Len(result.input) = 1
    /\ result.stats.total_broken = 2
    /\ rerun.tally.total_broken = 2

\* C12: when the source document is missing, or cannot be read or parsed,
\* the run of a mutating tool ends with a non-zero exit status, having
\* traversed nothing, classified nothing and left the source bytes as they
\* were.
DocumentUnusable ==
    /\ pc \notin {"off", "exists"}
    /\ hist.pre_src = NoFile \/ hist.load_failed

C12_UnusableDocumentAborts ==
    DocumentUnusable =>
      /\ pc = "done"
      /\ exit_code = <<1>>
      /\ data = <<>>
      /\ result = <<>>
      /\ fs_src = hist.pre_src

\* the pruning tool met a document that does not parse, after its backup
C12_Witness ==
    /\ pc = "done"
    /\ tool = "prune"
    /\ hist.load_failed
    /\ fs_src = Garbage
    /\ backup_path # <<>>
    /\ exit_code = <<1>>

\* C13: in a link-pruning traversal, after every increment of a tally
\* total_deleted <= total_broken <= total_tested; at the end total_tested is
\* the number of in-scope URL leaves, total_broken the number of those whose
\* verdict says drop, and total_deleted the number of leaves of the input
\* tree that are absent from the output tree: total_broken when simulate is
\* false, 0 when it is true.
LeafCount(children) ==
    Cardinality({p \in Positions(children) : ~IsFolder(ItemAt(children, p))})

C13_TallyConsistency ==
    Pruned =>
      /\ \A k \in 1..Len(result.trace) :
            /\ result.trace[k].total_deleted <= result.trace[k].total_broken
            /\ result.trace[k].total_broken <= result.trace[k].total_tested
      /\ result.trace[Len(result.trace)] = result.stats
      /\ result.stats.total_tested = Cardinality(InScopeUrlLeaves(result.input))
      /\ result.stats.total_broken =
            Cardinality({p \in InScopeUrlLeaves(result.input) :
                VerdictDrops(result.calls[Rank(result.input, p)].verdict)})
      /\ result.stats.total_deleted =
            LeafCount(result.input) - LeafCount(result.new)
      /\ result.stats.total_deleted =
            (IF args.dry_run THEN 0 ELSE result.stats.total_broken)

\* three leaves tested, two of them broken and removed
C13_Witness ==
    /\ Pruned
    /\ ~args.dry_run
    /\ result.stats.total_tested = 3
    /\ result.stats.total_broken = 2
    /\ result.stats.total_deleted = 2
    /\ LeafCount(result.new) = 1

\* C14: in a link-pruning traversal the classifier is called once for each
\* URL leaf whose folder path is within the scope and for nothing else, one
\* call after the other in depth-first document order of those leaves (the
\* k-th call is for the k-th such leaf, under its folder path); a call that
\* ends in a fault is followed by the calls for all the remaining leaves.
Faulted(v) == v.status = <<>> /\ v.error = <<"URLError">>

C14_ClassifierCalls ==
    Pruned =>
      LET S == InScopeUrlLeaves(result.input)
      IN  /\ Len(result.calls) = Cardinality(S)
          /\ \A p \in S :
                LET c == result.calls[RankIn(S, p)]
                IN  /\ c.url = ItemAt(result.input, p).URLString
                    /\ c.path = PathAt(result.input, p)
          /\ \A p, q \in S :
                (Before(p, q) /\ Faulted(result.calls[RankIn(S, p)].verdict)) =>
                    /\ RankIn(S, p) < RankIn(S, q)
                    /\ RankIn(S, q) <= Len(result.calls)

\* the first call faults, inside a folder; the leaf after the folder is
\* classified all the same
C14_Witness ==
    /\ Pruned
    /\ Len(result.input) = 2
    /\ IsFolder(result.input[1])
    /\ Len(result.calls) = 2
    /\ Faulted(result.calls[1].verdict)
    /\ result.calls[1].path # <<>>
    /\ result.calls[2].path = <<>>
    /\ result.calls[2].verdict.status = <<200>>

\* the folder titles that a scope path names, outermost first
RECURSIVE SplitPath(_, _)
SplitPath(path, title) ==
    IF path = <<>> THEN <<title>>
    ELSE IF Head(path) = "/" THEN <<title>> \o SplitPath(Tail(path), <<>>)
    ELSE SplitPath(Tail(path), Append(title, Head(path)))

\* the item at p lies in the folder the scope names or in a folder nested
\* beneath it, title by title
InScopeFolder(children, p) ==
    LET want == SplitPath(args.folder, <<>>)
        titles == AncestorTitles(children, p)
        have == [k \in 1..Len(titles) |->
                    IF titles[k] = <<>> THEN SansTitre ELSE titles[k]]
    IN  /\ Len(want) <= Len(have)
        /\ SubSeq(have, 1, Len(want)) = want

OutsideScopeFolder(children) ==
    {p \in UrlLeafPositions(children) : ~InScopeFolder(children, p)}

\* C15: with a folder F given as scope, only the URL leaves whose ancestor
\* folders are F itself or folders nested beneath F, compared title by
\* title, are tested; every URL leaf of any other folder is kept and not
\* tested.
C15_WholeTitleScope ==
    (Pruned /\ args.folder # <<>>) =>
        /\ Len(result.calls) =
              Cardinality(UrlLeafPositions(result.input)
                          \ OutsideScopeFolder(result.input))
        /\ Cardinality(OutsideScopeFolder(result.new)) =
              Cardinality(OutsideScopeFolder(result.input))

====
